---------------------------- MODULE Spec2Model ----------------------------
(***************************************************************************)
(* The etcd v3 engine of vulcand (engine/etcdv3ng/etcd.go): the key-path   *)
(* helpers, the snapshot assembler (GetSnapshot and the parse* functions), *)
(* the write API, the change classifier (parseChange and its matchers) and *)
(* the watch loop (Subscribe), over a model of the revisioned store.       *)
(*                                                                         *)
(* Keys are TLA+ strings, so that suffix, prefix, filterBySuffix and the   *)
(* store's prefix ranges work on characters exactly as the Go code does.   *)
(***************************************************************************)
EXTENDS Naturals, Sequences, FiniteSets, TLC

\* ------------------------------------------------------------------ bounds

\* The store revision never exceeds MaxRev (an empty etcd store is at 1).
MaxRev == 5

\* ------------------------------------------------------------- identifiers

\* n.etcdKey, the configured root of the key space.
etcdKey == "/v"

BackendIds == {"b1"}
ServerIds == {"s1", "s2"}
FrontendIds == {"f1"}
MiddlewareIds == {"m1", "m2"}
HostNames == {"h1"}
ListenerIds == {"l1"}

\* ------------------------------------------------------------ string helpers

\* Bytes in ascending order, as far as the keys of the model use them.
Alphabet == "/0123456789abcdefghijklmnopqrstuvwxyz"

Ord(c) == CHOOSE i \in 1..Len(Alphabet) : SubSeq(Alphabet, i, i) = c

\* Go's string comparison (bytewise lexicographic), the order of
\* etcd.WithSort(etcd.SortByKey, etcd.SortAscend).
RECURSIVE StrLess(_, _)
StrLess(a, b) ==
    IF b = "" THEN FALSE
    ELSE IF a = "" THEN TRUE
    ELSE IF Head(a) = Head(b) THEN StrLess(Tail(a), Tail(b))
    ELSE Ord(Head(a)) < Ord(Head(b))

\* strings.LastIndex(key, "/"), 1-based; 0 stands for Go's -1.
LastSlash(key) ==
    LET idx == {i \in 1..Len(key) : SubSeq(key, i, i) = "/"}
    IN  IF idx = {} THEN 0 ELSE CHOOSE i \in idx : \A j \in idx : j <= i

\* strings.Index(key, "/"), 1-based; 0 stands for Go's -1.
FirstSlash(key) ==
    LET idx == {i \in 1..Len(key) : SubSeq(key, i, i) = "/"}
    IN  IF idx = {} THEN 0 ELSE CHOOSE i \in idx : \A j \in idx : i <= j

suffix(key) ==
    LET lastSlashIdx == LastSlash(key)
    IN  IF lastSlashIdx = 0 THEN key
        ELSE SubSeq(key, lastSlashIdx + 1, Len(key))

\* prefix that keeps the separator it cuts at.
prefixWithSlash(key) ==
    LET lastSlashIdx == LastSlash(key)
    IN  IF lastSlashIdx = 0 THEN key
        ELSE SubSeq(key, 1, lastSlashIdx)

prefix(key) ==
    LET lastSlashIdx == LastSlash(key)
    IN  IF lastSlashIdx = 0 THEN key
        ELSE SubSeq(key, 1, lastSlashIdx - 1)

\* strings.Index(key, p) == 0: p is a leading substring of key.
HasPrefix(key, p) == Len(p) <= Len(key) /\ SubSeq(key, 1, Len(p)) = p

\* strings.Join(keys, "/")
RECURSIVE JoinSlash(_)
JoinSlash(keys) ==
    IF Len(keys) = 0 THEN ""
    ELSE IF Len(keys) = 1 THEN keys[1]
    ELSE keys[1] \o "/" \o JoinSlash(Tail(keys))

path(keys) == JoinSlash(<<etcdKey>> \o keys)

\* n.path of an engine whose etcdKey is base.
pathUnder(base, keys) == JoinSlash(<<base>> \o keys)

\* strings.Split(key, "/"): the segments of a key between its separators.
RECURSIVE Segments(_)
Segments(key) ==
    LET i == FirstSlash(key)
    IN  IF i = 0 THEN <<key>>
        ELSE <<SubSeq(key, 1, i - 1)>> \o Segments(SubSeq(key, i + 1, Len(key)))

\* The keys the engine builds from the identifiers above, and the roots of
\* the entity families.
EngineKeys ==
    {path(<<d>>) : d \in {"frontends", "backends", "hosts", "listeners"}}
    \cup {path(<<"backends", b>>) : b \in BackendIds}
    \cup {path(<<"backends", b, "backend">>) : b \in BackendIds}
    \cup {path(<<"backends", b, "servers", s>>) : b \in BackendIds, s \in ServerIds}
    \cup {path(<<"frontends", f>>) : f \in FrontendIds}
    \cup {path(<<"frontends", f, "frontend">>) : f \in FrontendIds}
    \cup {path(<<"frontends", f, "middlewares", m>>) :
             f \in FrontendIds, m \in MiddlewareIds}
    \cup {path(<<"hosts", h>>) : h \in HostNames}
    \cup {path(<<"hosts", h, "host">>) : h \in HostNames}
    \cup {path(<<"listeners", l>>) : l \in ListenerIds}

\* Segments, tabulated once for the keys of the engine.
SegmentsOf == [key \in EngineKeys |-> Segments(key)]

Split(key) == IF key \in EngineKeys THEN SegmentsOf[key] ELSE Segments(key)

\* ------------------------------------------------------------------ payloads

\* A stored value: the JSON document of an entity (kind), whether the
\* entity it encodes passes the engine package's validation (valid), and
\* the fields the engine reads back.  The empty value is the lease marker.
Payload(kind, valid, backendId, keyPair) ==
    [kind |-> kind, valid |-> valid, BackendId |-> backendId, KeyPair |-> keyPair]

EmptyVal == Payload("empty", FALSE, "", FALSE)

Ok(v) == [err |-> FALSE, val |-> v]
Err == [err |-> TRUE, val |-> <<>>]

FrontendFromJSON(bytes, id) ==
    IF bytes.kind = "frontend" /\ bytes.valid
    THEN Ok([Id |-> id, BackendId |-> bytes.BackendId])
    ELSE Err

BackendFromJSON(bytes, id) ==
    IF bytes.kind = "backend" /\ bytes.valid THEN Ok([Id |-> id]) ELSE Err

ServerFromJSON(bytes, id) ==
    IF bytes.kind = "server" /\ bytes.valid THEN Ok([Id |-> id]) ELSE Err

MiddlewareFromJSON(bytes, id) ==
    IF bytes.kind = "middleware" /\ bytes.valid THEN Ok([Id |-> id]) ELSE Err

ListenerFromJSON(bytes, id) ==
    IF bytes.kind = "listener" /\ bytes.valid THEN Ok([Id |-> id]) ELSE Err

\* json.Unmarshal into the host struct: any JSON object decodes.
UnmarshalHost(bytes) ==
    IF bytes.kind \in {"empty", "garbage"} THEN Err
    ELSE Ok([KeyPair |-> bytes.KeyPair])

\* --------------------------------------------------------------------- state

VARIABLES
    store,      \* the key space: key -> stored value, for the keys present
    rev,        \* the store's revision (response.Header.Revision)
    log,        \* the store's mutation history: <<[rev, type, key, val]>>
    compactRev, \* revisions below it have been compacted away
    box,        \* n.options.Box is configured
    snapshot,   \* the result of the last GetSnapshot
    lastOp,     \* the last engine call and its result
    pc,         \* where Subscribe is: idle, recv, events, select, stopped
    afterIdx,   \* Subscribe's afterIdx
    watchRev,   \* the next revision the store's watcher sends
    response,   \* response.Events of the watch response being processed
    evIdx,      \* the position of the loop in response.Events
    change,     \* the change the select statement is delivering
    changes,    \* what the consumer has received on the changes channel
    cancelC,    \* the consumer has raised the cancellation signal
    ret,        \* what Subscribe returned, and on which path
    classified  \* history: the mutations parseChange was called on

storeVars == <<store, rev, log, compactRev, box>>

watchVars == <<pc, afterIdx, watchRev, response, evIdx, change, changes,
               cancelC, ret, classified>>

NoSnapshot == [called |-> FALSE]

\* ------------------------------------------------------------ the store (etcd)

Keys == DOMAIN store

\* A set of keys as the sequence sorted ascending by key.
RECURSIVE SortKeys(_)
SortKeys(S) ==
    IF S = {} THEN <<>>
    ELSE LET least == CHOOSE k \in S : \A j \in S : j = k \/ StrLess(k, j)
         IN  <<least>> \o SortKeys(S \ {least})

\* client.Get(key, WithPrefix(), WithSort(SortByKey, SortAscend)).Kvs
GetPrefix(p) ==
    LET ks == SortKeys({k \in Keys : HasPrefix(k, p)})
    IN  [i \in 1..Len(ks) |-> [Key |-> ks[i], Value |-> store[ks[i]]]]

\* client.Put(key, val): one new revision, one Put event.
StorePut(key, val) ==
    /\ store' = [k \in Keys \cup {key} |-> IF k = key THEN val ELSE store[k]]
    /\ rev' = rev + 1
    /\ log' = Append(log, [rev |-> rev + 1, type |-> "PUT", key |-> key,
                            val |-> val])

\* client.Delete(key, WithPrefix()): every key of the range is deleted in
\* one revision, one Delete event per key; an empty range changes nothing.
StoreDeletePrefix(p) ==
    LET gone == SortKeys({k \in Keys : HasPrefix(k, p)})
    IN  IF Len(gone) = 0 THEN UNCHANGED <<store, rev, log>>
        ELSE /\ store' = [k \in Keys \ {gone[i] : i \in 1..Len(gone)} |-> store[k]]
             /\ rev' = rev + 1
             /\ log' = log \o [i \in 1..Len(gone) |->
                                 [rev |-> rev + 1, type |-> "DELETE", key |-> gone[i],
                                  val |-> EmptyVal]]

\* ------------------------------------------------------- snapshot assembler

filterBySuffix(keys, suf) == SelectSeq(keys, LAMBDA key : HasPrefix(key.Key, suf))

RECURSIVE parseMiddlewares(_, _, _)
parseMiddlewares(subKeyValues, i, middlewares) ==
    IF i > Len(subKeyValues) THEN Ok(middlewares)
    ELSE LET subKeyValue == subKeyValues[i]
             middlewareId == suffix(subKeyValue.Key)
         IN  IF suffix(prefix(subKeyValue.Key)) = "middlewares"
             THEN LET middleware == MiddlewareFromJSON(subKeyValue.Value, middlewareId)
                  IN  IF middleware.err THEN Err
                      ELSE parseMiddlewares(subKeyValues, i + 1,
                                            Append(middlewares, middleware.val))
             ELSE parseMiddlewares(subKeyValues, i + 1, middlewares)

RECURSIVE parseFrontendsFrom(_, _, _, _)
parseFrontendsFrom(keyValues, i, skipMiddlewares, frontendSpecs) ==
    IF i > Len(keyValues) THEN Ok(frontendSpecs)
    ELSE LET keyValue == keyValues[i]
             frontendId == suffix(keyValue.Key)
         IN  IF suffix(prefix(keyValue.Key)) = "frontend"
             THEN LET frontend == FrontendFromJSON(keyValue.Value, frontendId)
                      middlewares ==
                          parseMiddlewares(filterBySuffix(keyValues, keyValue.Key), 1, <<>>)
                  IN  IF frontend.err THEN Err
                      ELSE IF skipMiddlewares THEN Ok(frontendSpecs)  \* break
                      ELSE IF middlewares.err THEN Err
                      ELSE parseFrontendsFrom(keyValues, i + 1, skipMiddlewares,
                               Append(frontendSpecs,
                                      [Frontend |-> frontend.val,
                                       Middlewares |-> middlewares.val]))
             ELSE parseFrontendsFrom(keyValues, i + 1, skipMiddlewares, frontendSpecs)

parseFrontends(keyValues, skipMiddlewares) ==
    parseFrontendsFrom(keyValues, 1, skipMiddlewares, <<>>)

RECURSIVE parseServers(_, _, _)
parseServers(subKeyValues, i, servers) ==
    IF i > Len(subKeyValues) THEN Ok(servers)
    ELSE LET subKeyValue == subKeyValues[i]
             serverId == suffix(subKeyValue.Key)
         IN  IF suffix(prefix(subKeyValue.Key)) = "servers"
             THEN LET server == ServerFromJSON(subKeyValue.Value, serverId)
                  IN  IF server.err THEN Err
                      ELSE parseServers(subKeyValues, i + 1, Append(servers, server.val))
             ELSE parseServers(subKeyValues, i + 1, servers)

RECURSIVE parseBackendsFrom(_, _, _, _)
parseBackendsFrom(keyValues, i, skipServers, backendSpecs) ==
    IF i > Len(keyValues) THEN Ok(backendSpecs)
    ELSE LET keyValue == keyValues[i]
             backendId == suffix(keyValue.Key)
         IN  IF suffix(prefix(keyValue.Key)) = "backend"
             THEN LET backend == BackendFromJSON(keyValue.Value, backendId)
                      servers ==
                          parseServers(filterBySuffix(keyValues, keyValue.Key), 1, <<>>)
                  IN  IF backend.err THEN Err
                      ELSE IF skipServers THEN Ok(backendSpecs)  \* break
                      ELSE IF servers.err THEN Err
                      ELSE parseBackendsFrom(keyValues, i + 1, skipServers,
                               Append(backendSpecs,
                                      [Backend |-> backend.val, Servers |-> servers.val]))
             ELSE parseBackendsFrom(keyValues, i + 1, skipServers, backendSpecs)

parseBackends(keyValues, skipServers) ==
    parseBackendsFrom(keyValues, 1, skipServers, <<>>)

\* n.openSealedJSONVal of a host's key pair.
openSealedJSONVal(hasBox) == IF hasBox THEN Ok(TRUE) ELSE Err

RECURSIVE parseHostsFrom(_, _, _, _)
parseHostsFrom(keyValues, i, hasBox, hosts) ==
    IF i > Len(keyValues) THEN Ok(hosts)
    ELSE LET keyValue == keyValues[i]
             hostname == suffix(keyValue.Key)
         IN  IF suffix(prefix(keyValue.Key)) = "host"
             THEN LET sealedHost == UnmarshalHost(keyValue.Value)
                  IN  IF sealedHost.err THEN Err
                      ELSE IF sealedHost.val.KeyPair /\ openSealedJSONVal(hasBox).err
                      THEN Err
                      ELSE parseHostsFrom(keyValues, i + 1, hasBox,
                               Append(hosts, [Name |-> hostname,
                                              KeyPair |-> sealedHost.val.KeyPair]))
             ELSE parseHostsFrom(keyValues, i + 1, hasBox, hosts)

parseHosts(keyValues, hasBox) == parseHostsFrom(keyValues, 1, hasBox, <<>>)

RECURSIVE parseListenersFrom(_, _, _)
parseListenersFrom(keyValues, i, listeners) ==
    IF i > Len(keyValues) THEN Ok(listeners)
    ELSE LET keyValue == keyValues[i]
             listenerId == suffix(keyValue.Key)
         IN  IF suffix(prefix(keyValue.Key)) = "listeners"
             THEN LET listener == ListenerFromJSON(keyValue.Value, listenerId)
                  IN  IF listener.err THEN Err
                      ELSE parseListenersFrom(keyValues, i + 1,
                                              Append(listeners, listener.val))
             ELSE parseListenersFrom(keyValues, i + 1, listeners)

parseListeners(keyValues) == parseListenersFrom(keyValues, 1, <<>>)

\* The loop of GetSnapshot over response.Kvs from position i on: s is the
\* snapshot so far; an error of a parse function ends it with (nil, err).
RECURSIVE SnapshotLoop(_, _, _, _)
SnapshotLoop(Kvs, i, hasBox, s) ==
    IF i > Len(Kvs) THEN s
    ELSE LET key == Kvs[i].Key
             sub == filterBySuffix(Kvs, key)
             sw == suffix(key)
             r == CASE sw = "frontends" -> parseFrontends(sub, FALSE)
                    [] sw = "backends" -> parseBackends(sub, FALSE)
                    [] sw = "hosts" -> parseHosts(sub, hasBox)
                    [] sw = "listeners" -> parseListeners(sub)
                    [] OTHER -> Ok(<<>>)
         IN  IF r.err THEN [called |-> TRUE, err |-> TRUE]
             ELSE SnapshotLoop(Kvs, i + 1, hasBox,
                      CASE sw = "frontends" -> [s EXCEPT !.FrontendSpecs = r.val]
                        [] sw = "backends" -> [s EXCEPT !.BackendSpecs = r.val]
                        [] sw = "hosts" -> [s EXCEPT !.Hosts = r.val]
                        [] sw = "listeners" -> [s EXCEPT !.Listeners = r.val]
                        [] OTHER -> s)

\* SnapshotOf with the Index one short of the revision of the read.
SnapshotOfEarlierRevision(Kvs, Revision, hasBox) ==
    SnapshotLoop(Kvs, 1, hasBox,
                 [called |-> TRUE, err |-> FALSE, Index |-> Revision - 1,
                  FrontendSpecs |-> <<>>, BackendSpecs |-> <<>>,
                  Hosts |-> <<>>, Listeners |-> <<>>])

\* GetSnapshot on the listing Kvs read at revision Revision.  (The bulk
\* read itself failing is a transport error of the store, not modelled.)
SnapshotOf(Kvs, Revision, hasBox) ==
    SnapshotLoop(Kvs, 1, hasBox,
                 [called |-> TRUE, err |-> FALSE, Index |-> Revision,
                  FrontendSpecs |-> <<>>, BackendSpecs |-> <<>>,
                  Hosts |-> <<>>, Listeners |-> <<>>])

\* lastOp.before is the Index the previous successful call returned (0:
\* there was none).
GetSnapshot ==
    /\ snapshot' = [called |-> TRUE, listing |-> GetPrefix(etcdKey),
                    result |-> SnapshotOf(GetPrefix(etcdKey), rev, box)]
    /\ lastOp' = [op |-> "GetSnapshot", err |-> snapshot'.result.err,
                  before |-> IF snapshot.called /\ ~snapshot.result.err
                             THEN snapshot.result.Index ELSE 0]
    /\ UNCHANGED <<storeVars, watchVars>>

\* ------------------------------------------------------------------ point reads

\* n.getVal: the value of the one key, or a NotFoundError.
getVal(key) == IF key \in Keys THEN Ok(store[key]) ELSE Err

GetBackend(Id) ==
    LET bytes == getVal(path(<<"backends", Id, "backend">>))
    IN  IF bytes.err THEN Err ELSE BackendFromJSON(bytes.val, Id)

GetFrontend(Id) ==
    LET bytes == getVal(path(<<"frontends", Id, "frontend">>))
    IN  IF bytes.err THEN Err ELSE FrontendFromJSON(bytes.val, Id)

GetServer(BackendId, Id) ==
    LET bytes == getVal(path(<<"backends", BackendId, "servers", Id>>))
    IN  IF bytes.err THEN Err ELSE ServerFromJSON(bytes.val, Id)

GetMiddleware(FrontendId, Id) ==
    LET bytes == getVal(path(<<"frontends", FrontendId, "middlewares", Id>>))
    IN  IF bytes.err THEN Err ELSE MiddlewareFromJSON(bytes.val, Id)

GetListener(Id) ==
    LET bytes == getVal(path(<<"listeners", Id>>))
    IN  IF bytes.err THEN Err ELSE ListenerFromJSON(bytes.val, Id)

GetHost(Name) ==
    LET bytes == getVal(path(<<"hosts", Name, "host">>))
        host == UnmarshalHost(bytes.val)
    IN  IF bytes.err THEN Err
        ELSE IF host.err THEN Err
        ELSE IF host.val.KeyPair /\ openSealedJSONVal(box).err THEN Err
        ELSE Ok([Name |-> Name, KeyPair |-> host.val.KeyPair])

\* n.GetFrontends: the frontends of the listing under <etcdKey>/frontends.
GetFrontends ==
    LET frontendSpecs == parseFrontends(GetPrefix(etcdKey \o "/frontends"), TRUE)
    IN  IF frontendSpecs.err THEN Err
        ELSE Ok([i \in 1..Len(frontendSpecs.val) |-> frontendSpecs.val[i].Frontend])

\* n.GetBackends: the backends of the listing under <etcdKey>/backends.
GetBackends ==
    LET backendSpecs == parseBackends(GetPrefix(etcdKey \o "/backends"), TRUE)
    IN  IF backendSpecs.err THEN Err
        ELSE Ok([i \in 1..Len(backendSpecs.val) |-> backendSpecs.val[i].Backend])

\* n.getKeysByImmediatePrefix: of the keys that begin with the join of
\* keys, those whose prefix() is that join.
getKeysByImmediatePrefix(keys) ==
    LET targetPrefix == JoinSlash(keys)
        out == SelectSeq(GetPrefix(targetPrefix),
                         LAMBDA keyValue : prefix(keyValue.Key) = targetPrefix)
    IN  [i \in 1..Len(out) |-> out[i].Key]

\* n.GetHosts: GetHost of the last segment of each such key under
\* <etcdKey>/hosts; a host that cannot be read is left out.
GetHosts ==
    LET vals == getKeysByImmediatePrefix(<<etcdKey, "hosts">>)
        read == SelectSeq(vals, LAMBDA hostKey : ~GetHost(suffix(hostKey)).err)
    IN  Ok([i \in 1..Len(read) |-> GetHost(suffix(read[i])).val])

\* n.backendUsedBy: the frontends whose BackendId is the backend's.
backendUsedBy(Id) ==
    LET fs == GetFrontends
    IN  IF fs.err THEN Err
        ELSE Ok(SelectSeq(fs.val, LAMBDA f : f.BackendId = Id))

\* -------------------------------------------------------------------- write API

Rejected(op, id) ==
    /\ lastOp' = [op |-> op, id |-> id, err |-> TRUE]
    /\ UNCHANGED <<store, rev, log>>

Done(op, id) == lastOp' = [op |-> op, id |-> id, err |-> FALSE]

\* n.sealJSONVal: no Box, no sealing.
sealJSONVal(hasBox) == IF hasBox THEN Ok(TRUE) ELSE Err

UpsertBackend(b) ==
    /\ rev < MaxRev
    /\ StorePut(path(<<"backends", b.Id, "backend">>),
                Payload("backend", b.valid, "", FALSE))
    /\ Done("UpsertBackend", b.Id)
    /\ UNCHANGED <<compactRev, box, snapshot, watchVars>>

\* DeleteBackend with a Delete of the one key of the backend's record.
DeleteBackendRecordOnly(Id) ==
    /\ rev < MaxRev
    /\ LET fs == backendUsedBy(Id)
       IN  IF fs.err \/ Len(fs.val) # 0
           THEN Rejected("DeleteBackend", Id)
           ELSE /\ StoreDeletePrefix(path(<<"backends", Id, "backend">>))
                /\ Done("DeleteBackend", Id)
    /\ UNCHANGED <<compactRev, box, snapshot, watchVars>>

DeleteBackend(Id) ==
    /\ rev < MaxRev
    /\ LET fs == backendUsedBy(Id)
       IN  IF fs.err \/ Len(fs.val) # 0
           THEN Rejected("DeleteBackend", Id)
           ELSE /\ StoreDeletePrefix(path(<<"backends", Id>>))
                /\ Done("DeleteBackend", Id)
    /\ UNCHANGED <<compactRev, box, snapshot, watchVars>>

UpsertServer(BackendId, s) ==
    /\ rev < MaxRev
    /\ IF GetBackend(BackendId).err
       THEN Rejected("UpsertServer", s.Id)
       ELSE /\ StorePut(path(<<"backends", BackendId, "servers", s.Id>>),
                        Payload("server", s.valid, "", FALSE))
            /\ Done("UpsertServer", s.Id)
    /\ UNCHANGED <<compactRev, box, snapshot, watchVars>>

DeleteServer(BackendId, Id) ==
    /\ rev < MaxRev
    /\ StoreDeletePrefix(path(<<"backends", BackendId, "servers", Id>>))
    /\ Done("DeleteServer", Id)
    /\ UNCHANGED <<compactRev, box, snapshot, watchVars>>

\* UpsertFrontend without the read of the backend.
UpsertFrontendUnchecked(f, ttl) ==
    /\ rev < MaxRev
    /\ StorePut(path(<<"frontends", f.Id, "frontend">>),
                Payload("frontend", TRUE, f.BackendId, FALSE))
    /\ Done("UpsertFrontend", f.Id)
    /\ UNCHANGED <<compactRev, box, snapshot, watchVars>>

\* With a ttl the frontend record is followed by a second Put, of the
\* leased marker <etcdKey>/frontends/<id>.
UpsertFrontend(f, ttl) ==
    /\ rev + (IF ttl = 0 THEN 1 ELSE 2) <= MaxRev
    /\ IF GetBackend(f.BackendId).err
       THEN Rejected("UpsertFrontend", f.Id)
       ELSE LET frontendKey == path(<<"frontends", f.Id, "frontend">>)
                markerKey == path(<<"frontends", f.Id>>)
                val == Payload("frontend", TRUE, f.BackendId, FALSE)
            IN  /\ IF ttl = 0
                   THEN StorePut(frontendKey, val)
                   ELSE /\ store' = [k \in Keys \cup {frontendKey, markerKey} |->
                                       IF k = frontendKey THEN val
                                       ELSE IF k = markerKey THEN EmptyVal
                                       ELSE store[k]]
                        /\ rev' = rev + 2
                        /\ log' = log \o
                               <<[rev |-> rev + 1, type |-> "PUT", key |-> frontendKey,
                                  val |-> val],
                                 [rev |-> rev + 2, type |-> "PUT", key |-> markerKey,
                                  val |-> EmptyVal]>>
                /\ Done("UpsertFrontend", f.Id)
    /\ UNCHANGED <<compactRev, box, snapshot, watchVars>>

DeleteFrontend(Id) ==
    /\ rev < MaxRev
    /\ StoreDeletePrefix(path(<<"frontends", Id>>))
    /\ Done("DeleteFrontend", Id)
    /\ UNCHANGED <<compactRev, box, snapshot, watchVars>>

UpsertMiddleware(FrontendId, m) ==
    /\ rev < MaxRev
    /\ IF GetFrontend(FrontendId).err
       THEN Rejected("UpsertMiddleware", m.Id)
       ELSE /\ StorePut(path(<<"frontends", FrontendId, "middlewares", m.Id>>),
                        Payload("middleware", TRUE, "", FALSE))
            /\ Done("UpsertMiddleware", m.Id)
    /\ UNCHANGED <<compactRev, box, snapshot, watchVars>>

DeleteMiddleware(FrontendId, Id) ==
    /\ rev < MaxRev
    /\ StoreDeletePrefix(path(<<"frontends", FrontendId, "middlewares", Id>>))
    /\ Done("DeleteMiddleware", Id)
    /\ UNCHANGED <<compactRev, box, snapshot, watchVars>>

\* UpsertHost that stores the key pair as it is when there is no Box.
UpsertHostUnsealed(h) ==
    /\ rev < MaxRev
    /\ StorePut(path(<<"hosts", h.Name, "host">>), Payload("host", TRUE, "", h.KeyPair))
    /\ Done("UpsertHost", h.Name)
    /\ UNCHANGED <<compactRev, box, snapshot, watchVars>>

UpsertHost(h) ==
    /\ rev < MaxRev
    /\ IF h.KeyPair /\ sealJSONVal(box).err
       THEN Rejected("UpsertHost", h.Name)
       ELSE /\ StorePut(path(<<"hosts", h.Name, "host">>),
                        Payload("host", TRUE, "", h.KeyPair))
            /\ Done("UpsertHost", h.Name)
    /\ UNCHANGED <<compactRev, box, snapshot, watchVars>>

DeleteHost(Name) ==
    /\ rev < MaxRev
    /\ StoreDeletePrefix(path(<<"hosts", Name>>))
    /\ Done("DeleteHost", Name)
    /\ UNCHANGED <<compactRev, box, snapshot, watchVars>>

UpsertListener(l) ==
    /\ rev < MaxRev
    /\ StorePut(path(<<"listeners", l.Id>>), Payload("listener", l.valid, "", FALSE))
    /\ Done("UpsertListener", l.Id)
    /\ UNCHANGED <<compactRev, box, snapshot, watchVars>>

DeleteListener(Id) ==
    /\ rev < MaxRev
    /\ StoreDeletePrefix(path(<<"listeners", Id>>))
    /\ Done("DeleteListener", Id)
    /\ UNCHANGED <<compactRev, box, snapshot, watchVars>>

\* Another client of the same store: the family roots as keys of their
\* own, and a host record sealed by an engine that has a Box.
ExternalRecords ==
    {[key |-> etcdKey \o "/" \o d, val |-> EmptyVal] :
        d \in {"frontends", "backends", "hosts", "listeners"}}
    \cup {[key |-> path(<<"hosts", h, "host">>), val |-> Payload("host", TRUE, "", TRUE)] :
            h \in HostNames}

ExternalPut(r) ==
    /\ rev < MaxRev
    /\ StorePut(r.key, r.val)
    /\ Done("ExternalPut", r.key)
    /\ UNCHANGED <<compactRev, box, snapshot, watchVars>>

\* The lease that UpsertFrontend attached to the marker <etcdKey>/frontends/<id>
\* runs out: the store deletes that one key, the frontend record stays.
ExpireMarker(Id) ==
    /\ rev < MaxRev
    /\ path(<<"frontends", Id>>) \in Keys
    /\ store' = [k \in Keys \ {path(<<"frontends", Id>>)} |-> store[k]]
    /\ rev' = rev + 1
    /\ log' = Append(log, [rev |-> rev + 1, type |-> "DELETE",
                            key |-> path(<<"frontends", Id>>), val |-> EmptyVal])
    /\ Done("ExpireMarker", Id)
    /\ UNCHANGED <<compactRev, box, snapshot, watchVars>>

\* ------------------------------------------------------------ change classifier

NoChange == [type |-> "nil"]

\* The result of a matcher: (nil, nil), (change, nil) or (nil, err).
NoMatch == Ok(NoChange)

\* regexp "/backends/([^/]+)/servers/([^/]+)$" and its like: the key ends
\* in /<family>/<id>/<children>/<id>, both ids non-empty.  A segment of
\* index 1 has no separator before it, so <family> is at index 2 or more.
MatchChild(key, family, children) ==
    LET seg == Split(key)
        n == Len(seg)
    IN  IF /\ n >= 5
           /\ seg[n - 3] = family
           /\ seg[n - 2] # ""
           /\ seg[n - 1] = children
           /\ seg[n] # ""
        THEN <<key, seg[n - 2], seg[n]>>
        ELSE <<>>

\* regexp "/hosts/([^/]+)(?:/host)?$" and its like: the key ends in
\* /<family>/<id>/<record> or in /<family>/<id>; the leftmost match wins.
MatchContainer(key, family, record) ==
    LET seg == Split(key)
        n == Len(seg)
    IN  IF n >= 4 /\ seg[n - 2] = family /\ seg[n - 1] # "" /\ seg[n] = record
        THEN <<key, seg[n - 1]>>
        ELSE IF n >= 3 /\ seg[n - 1] = family /\ seg[n] # ""
        THEN <<key, seg[n]>>
        ELSE <<>>

\* regexp "/listeners/([^/]+)", anchored at neither end: the leftmost
\* segment "listeners" that a non-empty segment follows.
MatchListener(key) ==
    LET seg == Split(key)
        n == Len(seg)
        at == {i \in 2..(n - 1) : seg[i] = "listeners" /\ seg[i + 1] # ""}
    IN  IF at = {} THEN <<>>
        ELSE <<key, seg[(CHOOSE i \in at : \A j \in at : i <= j) + 1]>>

\* parseHostChange taking the host of a Put from the event's own value.
parseHostChangeFromPayload(e) ==
    LET out == MatchContainer(e.key, "hosts", "host")
        hostname == out[2]
        host == UnmarshalHost(e.val)
    IN  IF Len(out) # 2 THEN NoMatch
        ELSE IF e.type = "PUT"
        THEN IF host.err THEN Err
             ELSE Ok([type |-> "HostUpserted",
                      Host |-> [Name |-> hostname, KeyPair |-> host.val.KeyPair]])
        ELSE Ok([type |-> "HostDeleted", Name |-> hostname])

\* parseHostChange reading the host on a Delete as it does on a Put.
parseHostChangeReadsOnDelete(e) ==
    LET out == MatchContainer(e.key, "hosts", "host")
        hostname == out[2]
        host == GetHost(hostname)
    IN  IF Len(out) # 2 THEN NoMatch
        ELSE IF host.err THEN Err
        ELSE IF e.type = "PUT"
        THEN Ok([type |-> "HostUpserted", Host |-> host.val])
        ELSE Ok([type |-> "HostDeleted", Name |-> hostname])

parseHostChange(e) ==
    LET out == MatchContainer(e.key, "hosts", "host")
        hostname == out[2]
        host == GetHost(hostname)
    IN  IF Len(out) # 2 THEN NoMatch
        ELSE IF e.type = "PUT"
        THEN IF host.err THEN Err
             ELSE Ok([type |-> "HostUpserted", Host |-> host.val])
        ELSE Ok([type |-> "HostDeleted", Name |-> hostname])

parseListenerChange(e) ==
    LET out == MatchListener(e.key)
        l == GetListener(out[2])
    IN  IF Len(out) # 2 THEN NoMatch
        ELSE IF e.type = "PUT"
        THEN IF l.err THEN Err
             ELSE Ok([type |-> "ListenerUpserted", Listener |-> l.val])
        ELSE Ok([type |-> "ListenerDeleted", Id |-> out[2]])

parseFrontendChange(e) ==
    LET out == MatchContainer(e.key, "frontends", "frontend")
        f == GetFrontend(out[2])
    IN  IF Len(out) # 2 THEN NoMatch
        ELSE IF e.type = "PUT"
        THEN IF f.err THEN Err
             ELSE Ok([type |-> "FrontendUpserted", Frontend |-> f.val])
        ELSE Ok([type |-> "FrontendDeleted", Id |-> out[2]])

parseFrontendMiddlewareChange(e) ==
    LET out == MatchChild(e.key, "frontends", "middlewares")
        m == GetMiddleware(out[2], out[3])
    IN  IF Len(out) # 3 THEN NoMatch
        ELSE IF e.type = "PUT"
        THEN IF m.err THEN Err
             ELSE Ok([type |-> "MiddlewareUpserted", FrontendId |-> out[2],
                      Middleware |-> m.val])
        ELSE Ok([type |-> "MiddlewareDeleted", FrontendId |-> out[2], Id |-> out[3]])

parseBackendChange(e) ==
    LET out == MatchContainer(e.key, "backends", "backend")
        b == GetBackend(out[2])
    IN  IF Len(out) # 2 THEN NoMatch
        ELSE IF e.type = "PUT"
        THEN IF b.err THEN Err
             ELSE Ok([type |-> "BackendUpserted", Backend |-> b.val])
        ELSE Ok([type |-> "BackendDeleted", Id |-> out[2]])

parseBackendServerChange(e) ==
    LET out == MatchChild(e.key, "backends", "servers")
        srv == GetServer(out[2], out[3])
    IN  IF Len(out) # 3 THEN NoMatch
        ELSE IF e.type = "PUT"
        THEN IF srv.err THEN Err
             ELSE Ok([type |-> "ServerUpserted", BackendId |-> out[2],
                      Server |-> srv.val])
        ELSE Ok([type |-> "ServerDeleted", BackendId |-> out[2], Id |-> out[3]])

\* The matchers in the order of parseChange; the first that returns a
\* change or an error decides.
parseChange(e) ==
    IF parseBackendServerChange(e) # NoMatch THEN parseBackendServerChange(e)
    ELSE IF parseBackendChange(e) # NoMatch THEN parseBackendChange(e)
    ELSE IF parseFrontendMiddlewareChange(e) # NoMatch
    THEN parseFrontendMiddlewareChange(e)
    ELSE IF parseFrontendChange(e) # NoMatch THEN parseFrontendChange(e)
    ELSE IF parseHostChange(e) # NoMatch THEN parseHostChange(e)
    ELSE parseListenerChange(e)

\* n.parseChange called on the event at place k of the store's history,
\* at any time after the mutation was committed.
ParseChange(k) ==
    /\ k \in 1..Len(log)
    /\ lastOp' = [op |-> "parseChange", event |-> log[k], result |-> parseChange(log[k])]
    /\ UNCHANGED <<storeVars, snapshot, watchVars>>

\* ------------------------------------------------------------------- watch loop

NoReturn == [returned |-> FALSE]

Return(value, cause) ==
    /\ pc' = "stopped"
    /\ ret' = [returned |-> TRUE, value |-> value, cause |-> cause]

\* Subscribe up to its first receive on watchChan: the store's watcher
\* starts at revision afterIdx itself (etcd.WithRev), or after the
\* current revision when afterIdx is 0.
Subscribe(idx) ==
    /\ pc = "idle"
    /\ pc' = "recv"
    /\ afterIdx' = idx
    /\ watchRev' = IF idx = 0 THEN rev + 1 ELSE idx
    /\ UNCHANGED <<storeVars, snapshot, lastOp, response, evIdx, change, changes,
                   cancelC, ret, classified>>

\* The events of the log with revisions from..to, each with its place in
\* the log.
EventsBetween(from, to) ==
    LET at == {i \in 1..Len(log) : from <= log[i].rev /\ log[i].rev <= to}
        first == CHOOSE i \in at : \A j \in at : i <= j
    IN  [k \in 1..Cardinality(at) |->
           [rev |-> log[first + k - 1].rev, type |-> log[first + k - 1].type,
            key |-> log[first + k - 1].key, idx |-> first + k - 1]]

\* The loop is back at "for response := range watchChan" when the events
\* of the response are used up.
NextEvent(i) ==
    IF i < Len(response)
    THEN pc' = "events" /\ evIdx' = i + 1 /\ UNCHANGED response
    ELSE pc' = "recv" /\ evIdx' = 0 /\ response' = <<>>

\* A watch response with the events of one or more revisions arrives.
RecvResponse ==
    /\ pc = "recv"
    /\ watchRev >= compactRev
    /\ \E to \in watchRev..rev :
          /\ \E i \in 1..Len(log) : watchRev <= log[i].rev /\ log[i].rev <= to
          /\ response' = EventsBetween(watchRev, to)
          /\ watchRev' = to + 1
    /\ pc' = "events"
    /\ evIdx' = 1
    /\ UNCHANGED <<storeVars, snapshot, lastOp, afterIdx, change, changes,
                   cancelC, ret, classified>>

\* The store cancels the subscription, its revision being compacted away:
\* a response with Canceled set, whose Err() is ErrCompacted.  The loop
\* tests response.Canceled first.
RecvCanceled ==
    /\ pc = "recv"
    /\ watchRev < compactRev
    /\ Return("nil", "compacted")
    /\ UNCHANGED <<storeVars, snapshot, lastOp, afterIdx, watchRev, response, evIdx,
                   change, changes, cancelC, classified>>

\* The watch stream breaks: a response whose Err() is not nil.  Whether
\* the client library also sets Canceled on it depends on its version.
RecvError ==
    /\ pc = "recv"
    /\ \E Canceled \in BOOLEAN :
          IF Canceled THEN Return("nil", "errorCanceled") ELSE Return("err", "error")
    /\ UNCHANGED <<storeVars, snapshot, lastOp, afterIdx, watchRev, response, evIdx,
                   change, changes, cancelC, classified>>

\* n.Close() cancels the context the watch was opened with: watchChan is
\* closed, the range loop ends and Subscribe returns nil.
RecvClosed ==
    /\ pc = "recv"
    /\ Return("nil", "closed")
    /\ UNCHANGED <<storeVars, snapshot, lastOp, afterIdx, watchRev, response, evIdx,
                   change, changes, cancelC, classified>>

\* Classify with the loop returning the classifier's error instead of
\* continuing.
ClassifyReturnsOnError ==
    /\ pc = "events"
    /\ \E event \in {response[evIdx]}, r \in {parseChange(response[evIdx])} :
           /\ classified' = Append(classified,
                  [idx |-> event.idx, rev |-> event.rev,
                   result |-> IF r.err THEN "err"
                              ELSE IF r.val = NoChange THEN "nil" ELSE "change"])
           /\ IF r.err
              THEN /\ Return("err", "error")
                   /\ UNCHANGED <<response, evIdx, change>>
              ELSE IF r.val # NoChange
              THEN /\ pc' = "select"
                   /\ change' = r.val
                   /\ UNCHANGED <<response, evIdx, ret>>
              ELSE /\ NextEvent(evIdx)
                   /\ UNCHANGED <<change, ret>>
    /\ UNCHANGED <<storeVars, snapshot, lastOp, afterIdx, watchRev, changes, cancelC>>

\* Classify with break in the place of continue: an error drops the rest
\* of the response.
ClassifyBreaksOnError ==
    /\ pc = "events"
    /\ \E event \in {response[evIdx]}, r \in {parseChange(response[evIdx])} :
           /\ classified' = Append(classified,
                  [idx |-> event.idx, rev |-> event.rev,
                   result |-> IF r.err THEN "err"
                              ELSE IF r.val = NoChange THEN "nil" ELSE "change"])
           /\ IF r.err
              THEN /\ pc' = "recv" /\ evIdx' = 0 /\ response' = <<>>
                   /\ UNCHANGED change
              ELSE IF r.val # NoChange
              THEN /\ pc' = "select"
                   /\ change' = r.val
                   /\ UNCHANGED <<response, evIdx>>
              ELSE /\ NextEvent(evIdx)
                   /\ UNCHANGED change
    /\ UNCHANGED <<storeVars, snapshot, lastOp, afterIdx, watchRev, changes,
                   cancelC, ret>>

\* One pass of the loop over response.Events up to its select statement:
\* parseChange, then continue on an error or on no change.
Classify ==
    /\ pc = "events"
    /\ \E event \in {response[evIdx]}, r \in {parseChange(response[evIdx])} :
           /\ classified' = Append(classified,
                  [idx |-> event.idx, rev |-> event.rev,
                   result |-> IF r.err THEN "err"
                              ELSE IF r.val = NoChange THEN "nil" ELSE "change"])
           /\ IF ~r.err /\ r.val # NoChange
              THEN /\ pc' = "select"
                   /\ change' = r.val
                   /\ UNCHANGED <<response, evIdx>>
              ELSE /\ NextEvent(evIdx)
                   /\ UNCHANGED change
    /\ UNCHANGED <<storeVars, snapshot, lastOp, afterIdx, watchRev, changes,
                   cancelC, ret>>

\* Deliver with the change put in front of those the consumer has.
DeliverInFront ==
    /\ pc = "select"
    /\ changes' = <<[change |-> change, idx |-> response[evIdx].idx,
                     rev |-> response[evIdx].rev]>> \o changes
    /\ change' = NoChange
    /\ NextEvent(evIdx)
    /\ UNCHANGED <<storeVars, snapshot, lastOp, afterIdx, watchRev, cancelC,
                   ret, classified>>

\* select, case changes <- change: the consumer receives the change.
Deliver ==
    /\ pc = "select"
    /\ changes' = Append(changes, [change |-> change, idx |-> response[evIdx].idx,
                                   rev |-> response[evIdx].rev])
    /\ change' = NoChange
    /\ NextEvent(evIdx)
    /\ UNCHANGED <<storeVars, snapshot, lastOp, afterIdx, watchRev, cancelC,
                   ret, classified>>

\* The cancel case of the select carrying on with the loop instead of
\* returning.
SelectCancelContinues ==
    /\ pc = "select"
    /\ cancelC
    /\ change' = NoChange
    /\ NextEvent(evIdx)
    /\ UNCHANGED <<storeVars, snapshot, lastOp, afterIdx, watchRev, changes, cancelC,
                   ret, classified>>

\* select, case <-cancelC.
SelectCancel ==
    /\ pc = "select"
    /\ cancelC
    /\ Return("nil", "cancelC")
    /\ UNCHANGED <<storeVars, snapshot, lastOp, afterIdx, watchRev, response, evIdx,
                   change, changes, cancelC, classified>>

\* The consumer raises the cancellation signal.
Cancel ==
    /\ pc \in {"recv", "events", "select"}
    /\ ~cancelC
    /\ cancelC' = TRUE
    /\ UNCHANGED <<storeVars, snapshot, lastOp, pc, afterIdx, watchRev, response,
                   evIdx, change, changes, ret, classified>>

\* The store compacts its history up to revision r.
Compact(r) ==
    /\ compactRev < r
    /\ r <= rev
    /\ compactRev' = r
    /\ UNCHANGED <<store, rev, log, box, snapshot, lastOp, watchVars>>

\* ------------------------------------------------------------- specification

vars == <<store, rev, log, compactRev, box, snapshot, lastOp, watchVars>>

Init ==
    /\ store = [k \in {} |-> EmptyVal]
    /\ rev = 1
    /\ log = <<>>
    /\ compactRev = 0
    /\ box \in BOOLEAN
    /\ snapshot = NoSnapshot
    /\ lastOp = [op |-> "New", err |-> FALSE]
    /\ pc = "idle"
    /\ afterIdx = 0
    /\ watchRev = 0
    /\ response = <<>>
    /\ evIdx = 0
    /\ change = NoChange
    /\ changes = <<>>
    /\ cancelC = FALSE
    /\ ret = NoReturn
    /\ classified = <<>>

Writes ==
    \/ \E Id \in BackendIds, valid \in BOOLEAN : UpsertBackend([Id |-> Id, valid |-> valid])
    \/ \E Id \in BackendIds : DeleteBackend(Id)
    \/ \E b \in BackendIds, Id \in ServerIds, valid \in BOOLEAN :
          UpsertServer(b, [Id |-> Id, valid |-> valid])
    \/ \E b \in BackendIds, Id \in ServerIds : DeleteServer(b, Id)
    \/ \E Id \in FrontendIds, b \in BackendIds, ttl \in {0, 1} :
          UpsertFrontend([Id |-> Id, BackendId |-> b], ttl)
    \/ \E Id \in FrontendIds : DeleteFrontend(Id)
    \/ \E f \in FrontendIds, Id \in MiddlewareIds : UpsertMiddleware(f, [Id |-> Id])
    \/ \E f \in FrontendIds, Id \in MiddlewareIds : DeleteMiddleware(f, Id)
    \/ \E Name \in HostNames, KeyPair \in BOOLEAN :
          UpsertHost([Name |-> Name, KeyPair |-> KeyPair])
    \/ \E Name \in HostNames : DeleteHost(Name)
    \/ \E Id \in ListenerIds, valid \in BOOLEAN :
          UpsertListener([Id |-> Id, valid |-> valid])
    \/ \E Id \in ListenerIds : DeleteListener(Id)
    \/ \E r \in ExternalRecords : ExternalPut(r)

Next ==
    \/ Writes
    \/ GetSnapshot

Spec == Init /\ [][Next]_vars

\* The watch loop beside a reduced set of writers: one backend, one of
\* its servers, and a key of no entity.
WatchInit == Init /\ ~box

WatchWrites ==
    \/ \E valid \in BOOLEAN : UpsertBackend([Id |-> "b1", valid |-> valid])
    \/ DeleteBackend("b1")
    \/ UpsertServer("b1", [Id |-> "s1", valid |-> TRUE])
    \/ ExternalPut([key |-> etcdKey \o "/backends", val |-> EmptyVal])

\* Writers and the store's compaction matter to the loop while it runs.
WatchNext ==
    \/ pc # "stopped" /\ WatchWrites
    \/ pc = "idle" /\ GetSnapshot
    \/ snapshot.called /\ ~snapshot.result.err /\ Subscribe(snapshot.result.Index)
    \/ RecvResponse
    \/ RecvCanceled
    \/ RecvError
    \/ RecvClosed
    \/ Classify
    \/ Deliver
    \/ SelectCancel
    \/ Cancel
    \/ pc # "stopped" /\ Compact(rev)

WatchSpec == WatchInit /\ [][WatchNext]_vars

\* The watch loop with a consumer that keeps receiving, a store that keeps
\* sending, no cancellation, no compaction and no failure of the stream.
LiveWrites ==
    \/ UpsertBackend([Id |-> "b1", valid |-> TRUE])
    \/ DeleteBackend("b1")
    \/ ExternalPut([key |-> etcdKey \o "/backends", val |-> EmptyVal])

LiveNext ==
    \/ LiveWrites
    \/ pc = "idle" /\ GetSnapshot
    \/ snapshot.called /\ ~snapshot.result.err /\ Subscribe(snapshot.result.Index)
    \/ RecvResponse
    \/ Classify
    \/ Deliver

LiveSpec ==
    /\ WatchInit
    /\ [][LiveNext]_vars
    /\ WF_vars(RecvResponse)
    /\ WF_vars(Classify)
    /\ WF_vars(Deliver)

\* The watch loop with a consumer that receives until it raises the
\* cancellation signal and never after: a send on changes then blocks,
\* and Go's select takes the case that is ready.
BlockedNext ==
    \/ LiveWrites
    \/ pc = "idle" /\ GetSnapshot
    \/ snapshot.called /\ ~snapshot.result.err /\ Subscribe(snapshot.result.Index)
    \/ RecvResponse
    \/ Classify
    \/ ~cancelC /\ Deliver
    \/ Cancel
    \/ SelectCancel

BlockedSpec ==
    /\ WatchInit
    /\ [][BlockedNext]_vars
    /\ WF_vars(SelectCancel)

\* The path functions on their own: an engine rooted at any of Bases
\* joins up to MaxSegments segments, empty ones among them, and the key
\* is taken apart again by suffix and by repeated prefix.  lastOp holds
\* the call: the key it was given, the base and segments the key was
\* built from, and the result.
Bases == {"", "v", "/v", "/v/w", "v/"}
SegmentNames == {"", "a", "b1"}
MaxSegments == 3
SegmentSeqs == UNION {[1..n -> SegmentNames] : n \in 0..MaxSegments}
Front(keys) == SubSeq(keys, 1, Len(keys) - 1)

PathInit ==
    /\ store = [k \in {} |-> EmptyVal]
    /\ rev = 1
    /\ log = <<>>
    /\ compactRev = 0
    /\ box = FALSE
    /\ snapshot = NoSnapshot
    /\ \E base \in Bases, keys \in SegmentSeqs :
          lastOp = [op |-> "path", base |-> base, keys |-> keys,
                    result |-> pathUnder(base, keys)]
    /\ pc = "idle"
    /\ afterIdx = 0
    /\ watchRev = 0
    /\ response = <<>>
    /\ evIdx = 0
    /\ change = NoChange
    /\ changes = <<>>
    /\ cancelC = FALSE
    /\ ret = NoReturn
    /\ classified = <<>>

\* suffix(key) of the key just joined, or of the parent just taken.
Suffix ==
    /\ lastOp.op \in {"path", "prefix"}
    /\ lastOp' = [op |-> "suffix", base |-> lastOp.base, keys |-> lastOp.keys,
                  key |-> lastOp.result, result |-> suffix(lastOp.result)]
    /\ UNCHANGED <<storeVars, snapshot, watchVars>>

\* prefix(key) of the key just joined, or of the parent just taken; the
\* parent is the join of the segments but the last.
Prefix ==
    /\ lastOp.op \in {"path", "prefix"}
    /\ lastOp' = [op |-> "prefix", base |-> lastOp.base, keys |-> Front(lastOp.keys),
                  key |-> lastOp.result, result |-> prefix(lastOp.result)]
    /\ UNCHANGED <<storeVars, snapshot, watchVars>>

PathNext ==
    \/ Suffix
    \/ Prefix

PathSpec == PathInit /\ [][PathNext]_vars

\* Writers whose ids come in pairs of which one is the other followed by
\* a further character: "f1" and "f10".
WithLonger(ids) == ids \cup {id \o "0" : id \in ids}

LongerIdWrites ==
    \/ \E Id \in WithLonger(BackendIds) : UpsertBackend([Id |-> Id, valid |-> TRUE])
    \/ \E Id \in WithLonger(BackendIds) : DeleteBackend(Id)
    \/ \E b \in BackendIds, Id \in WithLonger({"s1"}) :
          UpsertServer(b, [Id |-> Id, valid |-> TRUE])
    \/ \E b \in BackendIds, Id \in WithLonger({"s1"}) : DeleteServer(b, Id)
    \/ \E Id \in WithLonger(FrontendIds), b \in BackendIds :
          UpsertFrontend([Id |-> Id, BackendId |-> b], 0)
    \/ \E Id \in WithLonger(FrontendIds) : DeleteFrontend(Id)
    \/ \E f \in FrontendIds, Id \in WithLonger({"m1"}) : UpsertMiddleware(f, [Id |-> Id])
    \/ \E f \in FrontendIds, Id \in WithLonger({"m1"}) : DeleteMiddleware(f, Id)
    \/ \E Name \in WithLonger(HostNames) : UpsertHost([Name |-> Name, KeyPair |-> FALSE])
    \/ \E Name \in WithLonger(HostNames) : DeleteHost(Name)
    \/ \E Id \in WithLonger(ListenerIds) : UpsertListener([Id |-> Id, valid |-> TRUE])
    \/ \E Id \in WithLonger(ListenerIds) : DeleteListener(Id)

LongerIdSpec == Init /\ [][LongerIdWrites]_vars

\* Calls of the listing operations, their results kept in lastOp.
ListFrontends ==
    /\ lastOp' = [op |-> "GetFrontends", result |-> GetFrontends]
    /\ UNCHANGED <<storeVars, snapshot, watchVars>>

ListBackends ==
    /\ lastOp' = [op |-> "GetBackends", result |-> GetBackends]
    /\ UNCHANGED <<storeVars, snapshot, watchVars>>

ListHosts ==
    /\ lastOp' = [op |-> "GetHosts", result |-> GetHosts]
    /\ UNCHANGED <<storeVars, snapshot, watchVars>>

\* A store written by the engine alone, with well-formed entities, and
\* listed in between.
ListWrites ==
    \/ \E Id \in BackendIds : UpsertBackend([Id |-> Id, valid |-> TRUE])
    \/ \E Id \in BackendIds : DeleteBackend(Id)
    \/ \E Id \in FrontendIds, b \in BackendIds, ttl \in {0, 1} :
          UpsertFrontend([Id |-> Id, BackendId |-> b], ttl)
    \/ \E Id \in FrontendIds : DeleteFrontend(Id)
    \/ \E Name \in HostNames, KeyPair \in BOOLEAN :
          UpsertHost([Name |-> Name, KeyPair |-> KeyPair])
    \/ \E Name \in HostNames : DeleteHost(Name)

ListNext ==
    \/ ListWrites
    \/ ListFrontends
    \/ ListBackends
    \/ ListHosts

ListSpec == Init /\ [][ListNext]_vars

\* A call of n.GetHost, its result kept in lastOp.
ReadHost(Name) ==
    /\ lastOp' = [op |-> "GetHost", id |-> Name, result |-> GetHost(Name)]
    /\ UNCHANGED <<storeVars, snapshot, watchVars>>

\* Engines with and without a Box that write, delete and read hosts and
\* listeners; another engine, which has a Box, stores a sealed host.
HostWrites ==
    \/ \E Name \in HostNames, KeyPair \in BOOLEAN :
          UpsertHost([Name |-> Name, KeyPair |-> KeyPair])
    \/ \E Name \in HostNames : DeleteHost(Name)
    \/ \E Id \in ListenerIds : UpsertListener([Id |-> Id, valid |-> TRUE])
    \/ \E Id \in ListenerIds : DeleteListener(Id)
    \/ \E r \in {x \in ExternalRecords : x.val.kind = "host"} : ExternalPut(r)

HostNext ==
    \/ HostWrites
    \/ \E Name \in HostNames : ReadHost(Name)

HostSpec == Init /\ [][HostNext]_vars

\* Clients that write backends, their servers and frontends, and take
\* snapshots in between.
IntegrityWrites ==
    \/ \E Id \in BackendIds, valid \in BOOLEAN : UpsertBackend([Id |-> Id, valid |-> valid])
    \/ \E Id \in BackendIds : DeleteBackend(Id)
    \/ \E b \in BackendIds, Id \in ServerIds : UpsertServer(b, [Id |-> Id, valid |-> TRUE])
    \/ \E b \in BackendIds, Id \in ServerIds : DeleteServer(b, Id)
    \/ \E Id \in FrontendIds, b \in BackendIds, ttl \in {0, 1} :
          UpsertFrontend([Id |-> Id, BackendId |-> b], ttl)
    \/ \E Id \in FrontendIds : DeleteFrontend(Id)

IntegrityNext ==
    \/ IntegrityWrites
    \/ GetSnapshot

IntegritySpec == Init /\ [][IntegrityNext]_vars

\* The classifier on the events of a store whose writers use, among the
\* ids, names that are also segments of the path grammar.
ClassifyInit == Init /\ box

ClassifyWrites ==
    \/ \E valid \in BOOLEAN : UpsertBackend([Id |-> "b1", valid |-> valid])
    \/ DeleteBackend("b1")
    \/ UpsertServer("b1", [Id |-> "s1", valid |-> TRUE])
    \/ \E Id \in {"f1", "backends"}, ttl \in {0, 1} :
          UpsertFrontend([Id |-> Id, BackendId |-> "b1"], ttl)
    \/ \E Id \in {"f1", "backends"} : DeleteFrontend(Id)
    \/ \E Id \in {"f1", "backends"} : ExpireMarker(Id)
    \/ UpsertMiddleware("f1", [Id |-> "m1"])
    \/ \E Name \in {"h1", "frontends"}, KeyPair \in BOOLEAN :
          UpsertHost([Name |-> Name, KeyPair |-> KeyPair])
    \/ \E Name \in {"h1", "frontends"} : DeleteHost(Name)
    \/ UpsertListener([Id |-> "l1", valid |-> TRUE])
    \/ DeleteListener("l1")

ClassifyNext ==
    \/ ClassifyWrites
    \/ \E k \in 1..Len(log) : ParseChange(k)

ClassifySpec == ClassifyInit /\ [][ClassifyNext]_vars

\* ---------------------------------------------------------------- properties

\* The segments of the root, and the six forms of the path grammar.
RootSegs == Split(etcdKey)

UnderRoot(seg, n) ==
    Len(seg) = Len(RootSegs) + n /\ SubSeq(seg, 1, Len(RootSegs)) = RootSegs

\* <root>/<family>/<id>/<record>: the id, or nothing.
ContainerId(key, family, record) ==
    LET seg == Split(key)
        r == Len(RootSegs)
    IN  IF UnderRoot(seg, 3) /\ seg[r + 1] = family /\ seg[r + 2] # ""
           /\ seg[r + 3] = record
        THEN {seg[r + 2]} ELSE {}

\* <root>/<family>/<id>/<children>/<child id>: <<id, child id>>, or nothing.
ChildId(key, family, children) ==
    LET seg == Split(key)
        r == Len(RootSegs)
    IN  IF UnderRoot(seg, 4) /\ seg[r + 1] = family /\ seg[r + 2] # ""
           /\ seg[r + 3] = children /\ seg[r + 4] # ""
        THEN {<<seg[r + 2], seg[r + 4]>>} ELSE {}

\* <root>/listeners/<id>: the id, or nothing.
ListenerId(key) ==
    LET seg == Split(key)
        r == Len(RootSegs)
    IN  IF UnderRoot(seg, 2) /\ seg[r + 1] = "listeners" /\ seg[r + 2] # ""
        THEN {seg[r + 2]} ELSE {}

GrammarKey(key) ==
    \/ ContainerId(key, "hosts", "host") # {}
    \/ ContainerId(key, "frontends", "frontend") # {}
    \/ ContainerId(key, "backends", "backend") # {}
    \/ ListenerId(key) # {}
    \/ ChildId(key, "frontends", "middlewares") # {}
    \/ ChildId(key, "backends", "servers") # {}

Records(listing) == {listing[i] : i \in 1..Len(listing)}

\* The ids of the entities of each family that a listing holds with a
\* well-formed payload.
HostsIn(listing) ==
    UNION {ContainerId(kv.Key, "hosts", "host") :
             kv \in {r \in Records(listing) :
                       /\ ~UnmarshalHost(r.Value).err
                       /\ r.Value.KeyPair => box}}

ListenersIn(listing) ==
    UNION {ListenerId(kv.Key) :
             kv \in {r \in Records(listing) : ~ListenerFromJSON(r.Value, "").err}}

FrontendsIn(listing) ==
    UNION {ContainerId(kv.Key, "frontends", "frontend") :
             kv \in {r \in Records(listing) : ~FrontendFromJSON(r.Value, "").err}}

BackendsIn(listing) ==
    UNION {ContainerId(kv.Key, "backends", "backend") :
             kv \in {r \in Records(listing) : ~BackendFromJSON(r.Value, "").err}}

MiddlewaresIn(listing, f) ==
    {c[2] : c \in {d \in UNION {ChildId(kv.Key, "frontends", "middlewares") :
                                  kv \in Records(listing)} : d[1] = f}}

ServersIn(listing, b, wellFormed) ==
    {c[2] : c \in {d \in UNION {ChildId(kv.Key, "backends", "servers") :
                      kv \in {r \in Records(listing) :
                                ServerFromJSON(r.Value, "").err = ~wellFormed}} :
                   d[1] = b}}

Range(seq) == {seq[i] : i \in 1..Len(seq)}

\* The mutation at place idx of the log has been delivered to the consumer.
Delivered(idx) == \E j \in 1..Len(changes) : changes[j].idx = idx

\* The mutation at place idx of the log has been through parseChange.
Classified(idx) == \E i \in 1..Len(classified) : classified[i].idx = idx

\* The places of the log under LiveSpec: each of its writes commits one
\* revision with at most one event, so the log is shorter than MaxRev.
MaxEvents == MaxRev

\* C1: a watch started with afterIdx equal to the revision of the
\* preceding snapshot never delivers an event for a mutation whose
\* revision is at most that revision.
C1_NoEventAtOrBeforeSnapshot ==
    \A j \in 1..Len(changes) : changes[j].rev > afterIdx

\* C2: with the watch started from the snapshot's revision, no
\* compaction, no cancellation and a consumer that keeps receiving, every
\* mutation committed after that revision is eventually delivered (read
\* here for the mutations of the records of the path grammar alone).
C2_EveryMutationDelivered ==
    \A k \in 1..MaxEvents :
        (pc # "idle" /\ k <= Len(log) /\ log[k].rev > afterIdx
            /\ GrammarKey(log[k].key)) ~> Delivered(k)

\* C2 as amended: every such mutation is eventually classified, and is
\* delivered when its classification yields a change (not nil, not an error).
C2_EveryMutationClassified ==
    \A k \in 1..MaxEvents :
        (pc # "idle" /\ k <= Len(log) /\ log[k].rev > afterIdx)
            ~> (\E i \in 1..Len(classified) :
                   /\ classified[i].idx = k
                   /\ classified[i].result = "change" => Delivered(k))

\* A mutation after the snapshot was delivered, and another one was
\* classified with an error and left behind.
C2_Witness ==
    \E i, j \in 1..Len(classified) :
        /\ i < j
        /\ classified[i].rev > afterIdx
        /\ classified[i].result = "err"
        /\ classified[j].result = "change"
        /\ Delivered(classified[j].idx)

\* C3: once the cancellation signal is raised, no further mutation is
\* classified and no further event is delivered.
C3_CancelStopsProcessing ==
    [][cancelC => (classified' = classified /\ changes' = changes)]_vars

\* C4: a subscription the store cancels (its revision compacted away)
\* ends Subscribe with a non-nil error.
C4_StoreCancelIsFatal ==
    (ret.returned /\ ret.cause = "compacted") => ret.value = "err"

\* C10: a classification error never ends the loop.  Subscribe returns
\* only at the receive on watchChan or at the select of a change; the
\* mutation that failed is not delivered; the loop leaves no mutation of
\* the stream unclassified and leaves no change behind undelivered.
C10_ClassifyErrorIsSkipped ==
    /\ pc = "stopped" =>
          \/ response = <<>>
          \/ /\ classified # <<>>
             /\ classified[Len(classified)].result = "change"
             /\ change # NoChange
    /\ \A i \in 1..Len(classified) :
          /\ classified[i].result = "err" => ~Delivered(classified[i].idx)
          /\ i < Len(classified) =>
                /\ classified[i + 1].idx = classified[i].idx + 1
                /\ classified[i].result = "change" => Delivered(classified[i].idx)

\* A mutation failed to classify, and a later one of the same response
\* was classified and delivered.
C10_Witness ==
    \E i, j \in 1..Len(classified) :
        /\ i < j
        /\ classified[i].result = "err"
        /\ classified[i].rev < classified[j].rev
        /\ classified[j].result = "change"
        /\ Delivered(classified[j].idx)
        /\ pc = "events"
        /\ \E a, b \in 1..Len(response) :
              response[a].idx = classified[i].idx /\ response[b].idx = classified[j].idx

\* C5: DeleteBackend of a backend that a stored frontend references is
\* rejected with an error and leaves the store unchanged.
ReferencedBackend(Id) ==
    \E k \in Keys :
        /\ ContainerId(k, "frontends", "frontend") # {}
        /\ store[k].kind = "frontend"
        /\ store[k].BackendId = Id

C5_ReferencedBackendIsKept ==
    [][(lastOp'.op = "DeleteBackend" /\ ReferencedBackend(lastOp'.id))
          => (lastOp'.err /\ store' = store)]_vars

\* C6: from a listing whose keys all follow the path grammar, GetSnapshot
\* returns for each family exactly one entity per container record with a
\* well-formed payload, its id the segment before the discriminator (for
\* a listener, the segment after "listeners").
C6_SnapshotHasEveryEntity ==
    (snapshot.called /\ \A kv \in Records(snapshot.listing) : GrammarKey(kv.Key)) =>
        /\ ~snapshot.result.err
        /\ Len(snapshot.result.Hosts) = Cardinality(HostsIn(snapshot.listing))
        /\ {h.Name : h \in Range(snapshot.result.Hosts)} = HostsIn(snapshot.listing)
        /\ Len(snapshot.result.Listeners) = Cardinality(ListenersIn(snapshot.listing))
        /\ {l.Id : l \in Range(snapshot.result.Listeners)}
              = ListenersIn(snapshot.listing)
        /\ Len(snapshot.result.FrontendSpecs)
              = Cardinality(FrontendsIn(snapshot.listing))
        /\ {f.Frontend.Id : f \in Range(snapshot.result.FrontendSpecs)}
              = FrontendsIn(snapshot.listing)
        /\ Len(snapshot.result.BackendSpecs)
              = Cardinality(BackendsIn(snapshot.listing))
        /\ {b.Backend.Id : b \in Range(snapshot.result.BackendSpecs)}
              = BackendsIn(snapshot.listing)

\* C7: the snapshot holds, for every frontend of the listing, its
\* middlewares and no others, as many as it has records, ascending by id.
C7_MiddlewaresSortedAndComplete ==
    snapshot.called =>
        \A f \in FrontendsIn(snapshot.listing) :
            /\ ~snapshot.result.err
            /\ \E spec \in Range(snapshot.result.FrontendSpecs) :
                  /\ spec.Frontend.Id = f
                  /\ [i \in 1..Len(spec.Middlewares) |-> spec.Middlewares[i].Id]
                        = SortKeys(MiddlewaresIn(snapshot.listing, f))

\* C8: a backend with one well-formed and one malformed server is in the
\* snapshot with exactly the well-formed server, and GetSnapshot returns
\* no error.
C8_MalformedServerIsSkipped ==
    snapshot.called =>
        \A b \in BackendsIn(snapshot.listing) :
            (/\ Cardinality(ServersIn(snapshot.listing, b, TRUE)) = 1
             /\ Cardinality(ServersIn(snapshot.listing, b, FALSE)) = 1) =>
                /\ ~snapshot.result.err
                /\ \E spec \in Range(snapshot.result.BackendSpecs) :
                      /\ spec.Backend.Id = b
                      /\ {srv.Id : srv \in Range(spec.Servers)}
                            = ServersIn(snapshot.listing, b, TRUE)
                      /\ Len(spec.Servers) = 1

\* C9: GetSnapshot returns an error only when the bulk read fails (which
\* it never does here): a malformed record costs the snapshot that entity
\* alone.
C9_SnapshotFailsOnlyOnRead ==
    snapshot.called => ~snapshot.result.err

\* The entity family a key of the path grammar belongs to, and its id(s).
OwnFamily(key) ==
    CASE ChildId(key, "backends", "servers") # {} -> "Server"
      [] ContainerId(key, "backends", "backend") # {} -> "Backend"
      [] ChildId(key, "frontends", "middlewares") # {} -> "Middleware"
      [] ContainerId(key, "frontends", "frontend") # {} -> "Frontend"
      [] ContainerId(key, "hosts", "host") # {} -> "Host"
      [] ListenerId(key) # {} -> "Listener"
      [] OTHER -> "none"

KeyIds(key) ==
    UNION {ChildId(key, "backends", "servers"),
           {<<id>> : id \in ContainerId(key, "backends", "backend")},
           ChildId(key, "frontends", "middlewares"),
           {<<id>> : id \in ContainerId(key, "frontends", "frontend")},
           {<<id>> : id \in ContainerId(key, "hosts", "host")},
           {<<id>> : id \in ListenerId(key)}}

\* The families whose matcher matches a key.
Matching(key) ==
    {f \in {"Server", "Backend", "Middleware", "Frontend", "Host", "Listener"} :
        CASE f = "Server" -> MatchChild(key, "backends", "servers") # <<>>
          [] f = "Backend" -> MatchContainer(key, "backends", "backend") # <<>>
          [] f = "Middleware" -> MatchChild(key, "frontends", "middlewares") # <<>>
          [] f = "Frontend" -> MatchContainer(key, "frontends", "frontend") # <<>>
          [] f = "Host" -> MatchContainer(key, "hosts", "host") # <<>>
          [] f = "Listener" -> MatchListener(key) # <<>>}

\* The family and the id(s) of an event.
EventFamily(c) ==
    CASE c.type \in {"ServerUpserted", "ServerDeleted"} -> "Server"
      [] c.type \in {"BackendUpserted", "BackendDeleted"} -> "Backend"
      [] c.type \in {"MiddlewareUpserted", "MiddlewareDeleted"} -> "Middleware"
      [] c.type \in {"FrontendUpserted", "FrontendDeleted"} -> "Frontend"
      [] c.type \in {"HostUpserted", "HostDeleted"} -> "Host"
      [] c.type \in {"ListenerUpserted", "ListenerDeleted"} -> "Listener"
      [] OTHER -> "none"

EventIds(c) ==
    CASE c.type = "ServerUpserted" -> <<c.BackendId, c.Server.Id>>
      [] c.type = "ServerDeleted" -> <<c.BackendId, c.Id>>
      [] c.type = "BackendUpserted" -> <<c.Backend.Id>>
      [] c.type = "BackendDeleted" -> <<c.Id>>
      [] c.type = "MiddlewareUpserted" -> <<c.FrontendId, c.Middleware.Id>>
      [] c.type = "MiddlewareDeleted" -> <<c.FrontendId, c.Id>>
      [] c.type = "FrontendUpserted" -> <<c.Frontend.Id>>
      [] c.type = "FrontendDeleted" -> <<c.Id>>
      [] c.type = "HostUpserted" -> <<c.Host.Name>>
      [] c.type = "HostDeleted" -> <<c.Name>>
      [] c.type = "ListenerUpserted" -> <<c.Listener.Id>>
      [] c.type = "ListenerDeleted" -> <<c.Id>>
      [] OTHER -> <<>>

\* C11: for a key of the path grammar, whatever its ids, exactly one
\* matcher matches, the matcher of the key's own family, and the event it
\* emits carries the id segment(s) of the key.
C11_OwnMatcherDecides ==
    (lastOp.op = "parseChange" /\ GrammarKey(lastOp.event.key)) =>
        /\ Matching(lastOp.event.key) = {OwnFamily(lastOp.event.key)}
        /\ ~lastOp.result.err =>
              /\ EventFamily(lastOp.result.val) = OwnFamily(lastOp.event.key)
              /\ {EventIds(lastOp.result.val)} = KeyIds(lastOp.event.key)

\* C12: a mutation on a key that is none of the six record forms of the
\* path grammar yields no event and no error; in particular the Delete of
\* a marker yields no Deleted event for an entity whose record is still
\* in the store.
C12_MarkerYieldsNothing ==
    (lastOp.op = "parseChange" /\ ~GrammarKey(lastOp.event.key)) =>
        /\ lastOp.result = NoMatch
        /\ (lastOp.event.type = "DELETE" /\ ~lastOp.result.err
               /\ EventFamily(lastOp.result.val) = "Frontend") =>
              path(<<"frontends", EventIds(lastOp.result.val)[1], "frontend">>)
                 \notin Keys

\* C13: a Delete on a key that an entity pattern matches yields the
\* Deleted event of that pattern's family with nothing but the id(s) taken
\* from the key, whatever the store holds at that time: no read, no error.
C13_DeleteNeedsNoRead ==
    (lastOp.op = "parseChange" /\ lastOp.event.type = "DELETE"
        /\ Matching(lastOp.event.key) # {}) =>
        /\ ~lastOp.result.err
        /\ lastOp.result.val.type \in
              {"ServerDeleted", "BackendDeleted", "MiddlewareDeleted",
               "FrontendDeleted", "HostDeleted", "ListenerDeleted"}
        /\ EventFamily(lastOp.result.val) \in Matching(lastOp.event.key)
        /\ Range(EventIds(lastOp.result.val)) \subseteq Range(Split(lastOp.event.key))
        /\ DOMAIN lastOp.result.val \subseteq {"type", "Id", "Name", "FrontendId", "BackendId"}
        /\ lastOp.event.key = path(<<"hosts", "h1", "host">>) =>
              lastOp.result.val = [type |-> "HostDeleted", Name |-> "h1"]

\* The Delete of the host h1 was classified when the store held no record
\* of h1.
C13_Witness ==
    /\ lastOp.op = "parseChange"
    /\ lastOp.event.type = "DELETE"
    /\ lastOp.event.key = path(<<"hosts", "h1", "host">>)
    /\ path(<<"hosts", "h1", "host">>) \notin Keys
    /\ lastOp.result = Ok([type |-> "HostDeleted", Name |-> "h1"])

\* The point read of the entity that an Upserted event names, and the
\* entity the event carries.
EntityRead(c) ==
    CASE c.type = "ServerUpserted" -> GetServer(c.BackendId, c.Server.Id)
      [] c.type = "BackendUpserted" -> GetBackend(c.Backend.Id)
      [] c.type = "MiddlewareUpserted" -> GetMiddleware(c.FrontendId, c.Middleware.Id)
      [] c.type = "FrontendUpserted" -> GetFrontend(c.Frontend.Id)
      [] c.type = "HostUpserted" -> GetHost(c.Host.Name)
      [] c.type = "ListenerUpserted" -> GetListener(c.Listener.Id)
      [] OTHER -> Err

EventEntity(c) ==
    CASE c.type = "ServerUpserted" -> c.Server
      [] c.type = "BackendUpserted" -> c.Backend
      [] c.type = "MiddlewareUpserted" -> c.Middleware
      [] c.type = "FrontendUpserted" -> c.Frontend
      [] c.type = "HostUpserted" -> c.Host
      [] c.type = "ListenerUpserted" -> c.Listener
      [] OTHER -> <<>>

\* C14: the Upserted event of a Put carries the entity that a point read
\* returns when the mutation is classified (the store's latest state),
\* and a Put whose record is gone by then yields an error and no event.
C14_UpsertedCarriesPointRead ==
    (lastOp.op = "parseChange" /\ lastOp.event.type = "PUT"
        /\ Matching(lastOp.event.key) # {}) =>
        /\ ~lastOp.result.err =>
              /\ lastOp.result.val.type \in
                    {"ServerUpserted", "BackendUpserted", "MiddlewareUpserted",
                     "FrontendUpserted", "HostUpserted", "ListenerUpserted"}
              /\ EntityRead(lastOp.result.val) = Ok(EventEntity(lastOp.result.val))
        /\ (GrammarKey(lastOp.event.key) /\ lastOp.event.key \notin Keys) =>
              lastOp.result.err

\* The Put of a host was classified after a later Put of the same host:
\* the event carries the later key pair setting, not the mutation's.
C14_Witness ==
    /\ lastOp.op = "parseChange"
    /\ lastOp.event.type = "PUT"
    /\ lastOp.event.key = path(<<"hosts", "h1", "host">>)
    /\ ~lastOp.result.err
    /\ lastOp.result.val.type = "HostUpserted"
    /\ lastOp.result.val.Host.KeyPair # lastOp.event.val.KeyPair

\* C15: when the loop is at the delivery of an event to a consumer that
\* no longer receives and the cancellation signal is raised, Subscribe
\* eventually returns nil; the pending event is not delivered then, and
\* no event is ever delivered twice.
C15_CancelUnblocksDelivery ==
    /\ (pc = "select" /\ cancelC) ~> (ret.returned /\ ret.value = "nil")
    /\ [](/\ \A i, j \in 1..Len(changes) : changes[i].idx = changes[j].idx => i = j
          /\ (ret.returned /\ ret.cause = "cancelC") => ~Delivered(response[evIdx].idx))

\* Subscribe returned nil from its select with an event pending.
C15_Witness ==
    /\ ret.returned
    /\ ret.cause = "cancelC"
    /\ ret.value = "nil"
    /\ change # NoChange
    /\ changes # <<>>

\* C16: the consumer receives the events one at a time in the order of
\* their mutations in the store's stream, none twice: the places of the
\* delivered events in the store's history ascend strictly, and each
\* event is the one classified for its place.
C16_DeliveredInStreamOrder ==
    /\ \A i, j \in 1..Len(changes) :
          i < j => /\ changes[i].idx < changes[j].idx
                   /\ changes[i].rev <= changes[j].rev
    /\ \A i \in 1..Len(changes) :
          /\ changes[i].idx \in 1..Len(log)
          /\ log[changes[i].idx].rev = changes[i].rev
          /\ \E k \in 1..Len(classified) :
                classified[k].idx = changes[i].idx /\ classified[k].result = "change"

\* The consumer has received the events of three mutations.
C16_Witness ==
    /\ Len(changes) >= 3
    /\ changes[1].idx < changes[2].idx
    /\ changes[2].idx < changes[3].idx

\* C17: an UpsertFrontend whose BackendId has no record
\* <etcdKey>/backends/<id>/backend at the time of the call returns an
\* error and leaves the store, its revision and its history as they were.
C17_FrontendNeedsBackend ==
    [][\A Id \in FrontendIds, b \in BackendIds, ttl \in {0, 1} :
          (/\ path(<<"backends", b, "backend">>) \notin Keys
           /\ UpsertFrontend([Id |-> Id, BackendId |-> b], ttl))
          => (/\ lastOp'.err
              /\ store' = store /\ rev' = rev /\ log' = log)]_vars

\* An UpsertFrontend has been rejected in a store that holds other
\* records, none of them the record of a backend.
C17_Witness ==
    /\ lastOp.op = "UpsertFrontend"
    /\ lastOp.err
    /\ Keys # {}
    /\ \A b \in BackendIds : path(<<"backends", b, "backend">>) \notin Keys

\* C18: a DeleteBackend of a backend that no frontend record references
\* returns no error, and after it the store holds neither the backend's
\* record nor any key under <etcdKey>/backends/<id>/servers.
C18_UnreferencedBackendIsRemoved ==
    [][(lastOp'.op = "DeleteBackend" /\ ~ReferencedBackend(lastOp'.id))
          => (/\ ~lastOp'.err
              /\ \A k \in DOMAIN store' :
                    /\ k # path(<<"backends", lastOp'.id, "backend">>)
                    /\ ~HasPrefix(k, path(<<"backends", lastOp'.id, "servers">>)))]_vars

\* A DeleteBackend has succeeded and the last revision of the history
\* deletes the backend's record together with the record of a server.
C18_Witness ==
    /\ lastOp.op = "DeleteBackend"
    /\ ~lastOp.err
    /\ \E i, j \in 1..Len(log) :
          /\ log[i].rev = rev /\ log[i].type = "DELETE"
          /\ log[i].key = path(<<"backends", lastOp.id, "backend">>)
          /\ log[j].rev = rev /\ log[j].type = "DELETE"
          /\ ChildId(log[j].key, "backends", "servers") # {}
    /\ \A k \in Keys : ~HasPrefix(k, path(<<"backends", lastOp.id>>))

\* C19: in every state the write operations reach, the backend named by
\* each stored frontend record has its record
\* <etcdKey>/backends/<id>/backend in the store.
C19_FrontendsReferenceStoredBackends ==
    \A k \in Keys :
        (ContainerId(k, "frontends", "frontend") # {} /\ store[k].kind = "frontend")
        => path(<<"backends", store[k].BackendId, "backend">>) \in Keys

\* C20: the Index of a snapshot is the revision of the store at the bulk
\* read the snapshot was assembled from, and no GetSnapshot returns an
\* Index below the one the successful call before it returned.
C20_SnapshotRevision ==
    [][(lastOp'.op = "GetSnapshot" /\ ~snapshot'.result.err)
          => (/\ snapshot'.listing = GetPrefix(etcdKey)
              /\ snapshot'.result.Index = rev
              /\ (snapshot.called /\ ~snapshot.result.err)
                    => snapshot'.result.Index >= snapshot.result.Index)]_vars

\* A second GetSnapshot has returned the revision of the store, after
\* mutations that followed the first.
C20_Witness ==
    /\ lastOp.op = "GetSnapshot"
    /\ ~lastOp.err
    /\ lastOp.before > 0
    /\ snapshot.result.Index > lastOp.before
    /\ snapshot.result.Index = rev

\* C21: with no Box, an UpsertHost of a host with a key pair returns an
\* error and writes nothing, and a GetHost of a stored host whose key
\* pair is not empty returns an error; a host without a key pair is
\* upserted and read back without error whether there is a Box or not.
C21_BoxNeededOnlyForKeyPair ==
    /\ [][\A Name \in HostNames, KeyPair \in BOOLEAN :
            UpsertHost([Name |-> Name, KeyPair |-> KeyPair])
            => IF KeyPair /\ ~box
               THEN /\ lastOp'.err
                    /\ store' = store /\ rev' = rev /\ log' = log
               ELSE /\ ~lastOp'.err
                    /\ path(<<"hosts", Name, "host">>) \in DOMAIN store'
                    /\ store'[path(<<"hosts", Name, "host">>)].KeyPair = KeyPair]_vars
    /\ [](\A Name \in HostNames :
            LET hostKey == path(<<"hosts", Name, "host">>)
            IN  hostKey \in Keys =>
                  IF store[hostKey].KeyPair /\ ~box
                  THEN GetHost(Name).err
                  ELSE GetHost(Name) = Ok([Name |-> Name,
                                           KeyPair |-> store[hostKey].KeyPair]))

\* An engine without a Box has read a stored host that has a sealed key
\* pair, and the read returned an error.
C21_Witness ==
    /\ ~box
    /\ lastOp.op = "GetHost"
    /\ lastOp.result.err
    /\ path(<<"hosts", lastOp.id, "host">>) \in Keys
    /\ store[path(<<"hosts", lastOp.id, "host">>)].KeyPair

\* C22: suffix and prefix undo path exactly.  Of a key joined from a base
\* and one or more segments without separator (empty ones included),
\* suffix is the last segment and prefix is the join of the base and the
\* segments before the last, also when prefix is applied again to its own
\* result; of a key without separator both are the whole key.
C22_PathRoundTrip ==
    /\ lastOp.op = "suffix" =>
          /\ \A keys \in SegmentSeqs :
                (Len(keys) >= 1 /\ lastOp.key = pathUnder(lastOp.base, keys))
                => lastOp.result = keys[Len(keys)]
          /\ LastSlash(lastOp.key) = 0 => lastOp.result = lastOp.key
    /\ lastOp.op = "prefix" =>
          /\ \A keys \in SegmentSeqs :
                (Len(keys) >= 1 /\ lastOp.key = pathUnder(lastOp.base, keys))
                => lastOp.result = pathUnder(lastOp.base, Front(keys))
          /\ LastSlash(lastOp.key) = 0 => lastOp.result = lastOp.key

\* prefix has been applied twice to a key of three segments that ends in
\* two separators, and has given the join of the base and the first
\* segment.
C22_Witness ==
    /\ lastOp.op = "prefix"
    /\ lastOp.base = "/v/w"
    /\ lastOp.key = "/v/w/b1/"
    /\ lastOp.keys = <<"b1">>
    /\ lastOp.result = "/v/w/b1"

\* The step leaves every stored key that is neither p nor below p/ in
\* the store with its value.
KeepsAllBut(p) ==
    \A k \in Keys :
        ~(k = p \/ HasPrefix(k, p \o "/"))
        => (k \in DOMAIN store' /\ store'[k] = store[k])

\* C23: a delete leaves the records of every entity other than the one
\* it names as they were, also when the id it names is the beginning
\* of the id of another entity of the family ("f1" and "f10").
C23_DeleteKeepsOtherEntities ==
    [][/\ \A Id \in WithLonger(FrontendIds) :
            DeleteFrontend(Id) => KeepsAllBut(path(<<"frontends", Id>>))
       /\ \A Id \in WithLonger(BackendIds) :
            DeleteBackend(Id) => KeepsAllBut(path(<<"backends", Id>>))
       /\ \A Name \in WithLonger(HostNames) :
            DeleteHost(Name) => KeepsAllBut(path(<<"hosts", Name>>))
       /\ \A Id \in WithLonger(ListenerIds) :
            DeleteListener(Id) => KeepsAllBut(path(<<"listeners", Id>>))
       /\ \A b \in BackendIds, Id \in WithLonger({"s1"}) :
            DeleteServer(b, Id) => KeepsAllBut(path(<<"backends", b, "servers", Id>>))
       /\ \A f \in FrontendIds, Id \in WithLonger({"m1"}) :
            DeleteMiddleware(f, Id)
            => KeepsAllBut(path(<<"frontends", f, "middlewares", Id>>))]_vars

\* The listing returned without error one entry for each of ids, and no
\* other entry.
ListsExactly(result, ids, field) ==
    /\ ~result.err
    /\ {result.val[i][field] : i \in 1..Len(result.val)} = ids
    /\ Len(result.val) = Cardinality(ids)

\* C24: in a store written by successful upserts and deletes, GetFrontends
\* returns exactly the frontends whose record
\* <etcdKey>/frontends/<id>/frontend is stored, GetBackends exactly the
\* backends whose record <etcdKey>/backends/<id>/backend is stored, and
\* GetHosts exactly the hosts whose record <etcdKey>/hosts/<name>/host is
\* stored and can be read.
C24_ListingsHaveEveryEntity ==
    /\ lastOp.op = "GetFrontends" =>
          ListsExactly(lastOp.result,
                       {f \in FrontendIds : path(<<"frontends", f, "frontend">>) \in Keys},
                       "Id")
    /\ lastOp.op = "GetBackends" =>
          ListsExactly(lastOp.result,
                       {b \in BackendIds : path(<<"backends", b, "backend">>) \in Keys},
                       "Id")
    /\ lastOp.op = "GetHosts" =>
          ListsExactly(lastOp.result,
                       {h \in HostNames : /\ path(<<"hosts", h, "host">>) \in Keys
                                          /\ ~GetHost(h).err},
                       "Name")

=============================================================================
